---- MODULE Spec2Model ----
(***************************************************************************)
(* The order-book (CLOB) view of allank/chartea: clob.Model with its       *)
(* Update, View and ViewWithOptions methods (src/clob/clob.go).            *)
(*                                                                         *)
(* Text is a sequence of one-character strings.  A rendered block is a     *)
(* sequence of lines, each line the visible characters of that line        *)
(* (styles carry no visible characters and are kept as span roles).        *)
(* Prices and volumes are float64 values that hold non-negative integers.  *)
(***************************************************************************)
EXTENDS Integers, Sequences, FiniteSets, TLC

VARIABLES
    Bids,            \* m.Bids: the slice the caller assigned (backing array shared)
    Asks,            \* m.Asks
    Spacing,         \* m.Spacing
    PricePrecision,  \* m.PricePrecision
    VolumePrecision, \* m.VolumePrecision
    width,           \* m.width, the cached viewport width
    height,          \* m.height, the cached viewport height
    callerBids,      \* the bid sequence as the caller assigned it (history)
    callerAsks,      \* the ask sequence as the caller assigned it (history)
    last,            \* the last ViewWithOptions call: its input, steps and result
    Orientation,     \* m.Orientation: "Horizontal" or "Vertical"
    Alignment,       \* m.Alignment: "AlignLeft" or "AlignRight"
    wclob,           \* the demo's second panel: its Orientation and Alignment
    mainModel,       \* the demo's mainModel: width, height, loading
    market,          \* the demo's -market flag ("" when not given)
    orderBookCache,  \* <<>> for nil, <<book>> for a cached *OrderBook
    isTokenizedCache,
    inflight,        \* refetchMsg values emitted and not yet handled
    presses,         \* parity of the 'v' and of the 'a' key presses (history)
    quit,            \* the program has ended: tea.Quit was returned, or a panic
    lastFetch,       \* the last fetchOrderBook call and its outcome (history)
    screen           \* what the last View of the demo put in its two panels

\* the state of the demo around the panel (src/unnamed/part_000)
demo == <<wclob, mainModel, market, orderBookCache, isTokenizedCache, inflight,
          presses, quit, lastFetch, screen>>

\* what no method of clob.Model reads or writes
untouched == <<Orientation, Alignment, demo>>

vars == <<Bids, Asks, Spacing, PricePrecision, VolumePrecision, width, height,
          callerBids, callerAsks, last, untouched>>

-----------------------------------------------------------------------------
(* Bounds of the model *)

\* most levels, bids and asks together, of the book the caller assigns
MaxLevels == 3
\* width of the machine int of the model (Go's int has 64 bits)
IntBits == 16

\* float64: bits of the significand, hidden bit included
MantissaBits == 53

\* the levels the caller builds a book from: {price, volume}
BidLevels == {[Price |-> 99, Volume |-> 15], [Price |-> 98, Volume |-> 22],
              [Price |-> 99, Volume |-> 0]}
AskLevels == {[Price |-> 101, Volume |-> 22], [Price |-> 100, Volume |-> 0]}

\* the values the caller assigns to Spacing and to the two precisions
\* (New() sets 1, 2 and 2)
Configs == {[Spacing |-> 1, PricePrecision |-> 2, VolumePrecision |-> 2],
            [Spacing |-> 4, PricePrecision |-> 0, VolumePrecision |-> 2]}

\* the viewports asked for: <<Width, Height>>
Viewports == ({45} \X {-1, 0, 1, 2}) \cup ({10} \X {0, 1, 2})
             \cup {<<1, 1>>, <<0, 1>>, <<-1, 1>>}

\* the window sizes the host reports
WindowSizes == {[Width |-> 45, Height |-> 1]}

\* the window sizes the terminal of the demo reports
TerminalSizes == {[Width |-> 80, Height |-> 24]}
\* most refetchMsg values in flight at once
MaxInflight == 2

\* sort.Slice sorts a range of at most MaxInsertion elements by insertion
\* (maxInsertion of the library's pdqsort)
MaxInsertion == 12

\* a bid side one level longer than that, as the caller assigns it: prices
\* ascending 87, 88, 88, 89, ..., 98, the first level at 88 with volume 15
DeepAscending ==
    [i \in 1..(MaxInsertion + 1) |->
        [Price |-> IF i <= 2 THEN 86 + i ELSE 85 + i,
         Volume |-> IF i = 2 THEN 15 ELSE 22]]

\* the same levels assigned best bid first
DeepDescending ==
    [i \in 1..(MaxInsertion + 1) |-> DeepAscending[MaxInsertion + 2 - i]]

DeepBids == {DeepAscending, DeepDescending}

-----------------------------------------------------------------------------
(* Integers of the machine *)

Min(a, b) == IF a < b THEN a ELSE b
Max(a, b) == IF a > b THEN a ELSE b

MinInt == -(2 ^ (IntBits - 1))
MaxInt == (2 ^ (IntBits - 1)) - 1

\* two's-complement wrap of an int result
WrapInt(x) == ((x + 2 ^ (IntBits - 1)) % (2 ^ IntBits)) - 2 ^ (IntBits - 1)

\* Go's integer division truncates toward zero
QuoInt(a, b) == IF a >= 0 THEN a \div b ELSE -((-a) \div b)

-----------------------------------------------------------------------------
(* float64 arithmetic of int(float64(width) * (o.Volume / maxVolume)),      *)
(* computed exactly for integer operands small enough that                 *)
(* width * volume * maxVolume < 2^31.                                      *)

RECURSIVE PowMod2(_, _)
\* 2^e modulo m
PowMod2(e, m) == IF e = 0 THEN 1 % m ELSE (2 * PowMod2(e - 1, m)) % m

RECURSIVE ShiftOf(_, _)
\* the t with 1 <= v * 2^t / d < 2
ShiftOf(v, d) ==
    IF v >= 2 * d THEN ShiftOf(v, 2 * d) - 1
    ELSE IF v >= d THEN 0
    ELSE ShiftOf(2 * v, d) + 1

RECURSIVE BinadeBelow(_)
\* the largest j with 2^j < k, for k >= 1 (-1 for k = 1)
BinadeBelow(k) == IF k <= 1 THEN -1 ELSE 1 + BinadeBelow((k + 1) \div 2)

\* whether the rounded product, which fell short of the integer k by
\* w * r / (d * 2^e), rounds back to k: s = e + BinadeBelow(k) - MantissaBits
BackToK(w, d, r, s) ==
    IF s >= 0 THEN w * r <= d * (2 ^ s) ELSE w * r * (2 ^ (-s)) <= d

\* k = floor(w*v/d), f its remainder, r the remainder of the rounded
\* quotient v/d, m0odd the parity of its last kept bit
TruncRounded(w, d, t, k, f, r, m0odd) ==
    IF f # 0 \/ r = 0 \/ k = 0 \/ 2 * r > d \/ (2 * r = d /\ m0odd) THEN k
    ELSE IF BackToK(w, d, r, t + BinadeBelow(k) - 1) THEN k
    ELSE k - 1

\* the quotient v/d keeps MantissaBits bits: it is scaled by 2^e
TruncScaled(w, v, d, t, e) ==
    TruncRounded(w, d, t, (w * v) \div d, (w * v) % d,
                 (v * PowMod2(e, d)) % d,
                 ((v * PowMod2(e, 2 * d)) % (2 * d)) >= d)

\* int(float64(w) * (v / d)) for w >= 0, v > 0, d > 0: the quotient v/d is
\* rounded to nearest-even at MantissaBits bits, the product is rounded again,
\* and the conversion truncates.
TruncShifted(w, v, d, t) == TruncScaled(w, v, d, t, (MantissaBits - 1) + t)

TruncProduct(w, v, d) == TruncShifted(w, v, d, ShiftOf(v, d))

\* the implementation-dependent results of converting NaN to int:
\* amd64 gives the smallest int, arm64 and wasm give 0, riscv64 the largest
NaNToInt == {MinInt, 0, MaxInt}

\* onLen := int(float64(width) * (o.Volume / maxVolume)); nan is what this
\* build's conversion gives for a NaN or infinite product
FloatOnLen(w, volume, maxVolume, nan) ==
    IF maxVolume = 0 THEN nan
    ELSE IF volume = 0 \/ w = 0 THEN 0
    ELSE IF w > 0 THEN TruncProduct(w, volume, maxVolume)
    ELSE -TruncProduct(-w, volume, maxVolume)

-----------------------------------------------------------------------------
(* Text *)

Repeat(c, n) == [i \in 1..n |-> c]

DigitChar == <<"0", "1", "2", "3", "4", "5", "6", "7", "8", "9">>

RECURSIVE Digits(_)
\* the decimal digits of n >= 0
Digits(n) == IF n < 10 THEN <<DigitChar[n + 1]>>
             ELSE Append(Digits(n \div 10), DigitChar[(n % 10) + 1])

\* fmt.Sprintf("%.<prec>f", x) for a float64 x that holds an integer
Sprintf(prec, x) ==
    (IF x < 0 THEN <<"-">> ELSE <<>>)
    \o Digits(IF x < 0 THEN -x ELSE x)
    \o (IF prec > 0 THEN <<".">> \o Repeat("0", prec) ELSE <<>>)

\* s[lo:hi] of Go, both bounds in range (0 <= lo <= hi <= len(s))
Slice(s, lo, hi) == SubSeq(s, lo + 1, hi)

\* whether s[:n] and s[n:] are in range; Go panics otherwise
SliceInRange(s, n) == 0 <= n /\ n <= Len(s)

-----------------------------------------------------------------------------
(* lipgloss: blocks of lines *)

\* the empty string is one empty line
EmptyBlock == <<<<>>>>

RECURSIVE MaxLineWidth(_)
MaxLineWidth(b) == IF b = <<>> THEN 0 ELSE Max(Len(Head(b)), MaxLineWidth(Tail(b)))

BlockWidth(b) == MaxLineWidth(b)
BlockHeight(b) == Len(b)

PadRight(line, n) == line \o Repeat(" ", n - Len(line))

\* Style.Width(n).Render(text) for text without newlines: no width set
\* (n <= 0) leaves the text alone; otherwise the text is wrapped at n
\* columns and every line is filled up to n columns
StyleRender(n, text) ==
    IF n <= 0 THEN <<text>>
    ELSE IF text = <<>> THEN <<Repeat(" ", n)>>
    ELSE [i \in 1..((Len(text) + n - 1) \div n) |->
            PadRight(SubSeq(text, (i - 1) * n + 1, Min(i * n, Len(text))), n)]

RECURSIVE MaxBlockHeight(_)
MaxBlockHeight(bs) == IF bs = <<>> THEN 0
                      ELSE Max(Len(Head(bs)), MaxBlockHeight(Tail(bs)))

\* one block made maxH lines tall: the missing lines are added below
\* (pos = "top") or above (pos = "bottom"), then every line is filled to the
\* width of the block
FillBlock(b, maxH, pos) ==
    LET extra == Repeat(<<>>, maxH - Len(b))
        tall == IF pos = "top" THEN b \o extra ELSE extra \o b
        w == BlockWidth(b)
    IN  [i \in 1..Len(tall) |-> PadRight(tall[i], w)]

RECURSIVE ConcatLines(_, _)
\* line i of every block, joined left to right
ConcatLines(bs, i) == IF bs = <<>> THEN <<>>
                      ELSE Head(bs)[i] \o ConcatLines(Tail(bs), i)

\* lipgloss.JoinHorizontal(pos, blocks...)
JoinHorizontal(pos, bs) ==
    IF Len(bs) = 0 THEN EmptyBlock
    ELSE IF Len(bs) = 1 THEN bs[1]
    ELSE LET maxH == MaxBlockHeight(bs)
             filled == [j \in 1..Len(bs) |-> FillBlock(bs[j], maxH, pos)]
         IN  [i \in 1..maxH |-> ConcatLines(filled, i)]

RECURSIVE AllLines(_)
AllLines(bs) == IF bs = <<>> THEN <<>> ELSE Head(bs) \o AllLines(Tail(bs))

\* lipgloss.JoinVertical(lipgloss.Left, blocks...)
JoinVertical(bs) ==
    IF Len(bs) = 0 THEN EmptyBlock
    ELSE IF Len(bs) = 1 THEN bs[1]
    ELSE LET lines == AllLines(bs)
             w == BlockWidth(lines)
         IN  [i \in 1..Len(lines) |-> PadRight(lines[i], w)]

\* lipgloss.PlaceHorizontal(w, lipgloss.Center, b): never cuts
PlaceHorizontal(w, b) ==
    LET contentWidth == BlockWidth(b)
        gap == w - contentWidth
    IN  IF gap <= 0 THEN b
        ELSE [i \in 1..Len(b) |->
                LET totalGap == gap + (contentWidth - Len(b[i]))
                    split == (totalGap + 1) \div 2
                    left == totalGap - split
                IN  Repeat(" ", left) \o b[i] \o Repeat(" ", totalGap - left)]

\* lipgloss.PlaceVertical(h, lipgloss.Center, b): never cuts
PlaceVertical(h, b) ==
    LET gap == h - Len(b)
    IN  IF gap <= 0 THEN b
        ELSE LET emptyLine == Repeat(" ", BlockWidth(b))
                 split == (gap + 1) \div 2
                 top == gap - split
             IN  Repeat(emptyLine, top) \o b \o Repeat(emptyLine, gap - top)

\* lipgloss.Place(w, h, Center, Center, b)
Place(w, h, b) == PlaceVertical(h, PlaceHorizontal(w, b))

-----------------------------------------------------------------------------
(* Sorter, truncator, scaler *)

\* a faulty less function that also holds between equal prices (>= for >)
PriceLessOrEqual(desc, a, b) == IF desc THEN a.Price >= b.Price ELSE a.Price <= b.Price

\* the less function of sortBids (desc) and of sortAsks (~desc)
PriceLess(desc, a, b) == IF desc THEN a.Price > b.Price ELSE a.Price < b.Price

RECURSIVE InsertOrder(_, _, _)
\* the inner loop of the insertion sort: x moves left while it is less than
\* its left neighbour
InsertOrder(s, x, desc) ==
    IF s = <<>> \/ ~PriceLess(desc, x, s[Len(s)]) THEN Append(s, x)
    ELSE Append(InsertOrder(SubSeq(s, 1, Len(s) - 1), x, desc), s[Len(s)])

RECURSIVE InsertionSort(_, _)
\* sort.Slice on at most 12 elements is an insertion sort
InsertionSort(s, desc) ==
    IF s = <<>> THEN <<>>
    ELSE InsertOrder(InsertionSort(SubSeq(s, 1, Len(s) - 1), desc), s[Len(s)], desc)

\* whether no element of s is less than the one before it
IsSorted(s, desc) == \A i \in 2..Len(s) : ~PriceLess(desc, s[i], s[i - 1])

RECURSIVE Perms(_)
\* every order of the elements of s
Perms(s) ==
    IF s = <<>> THEN {<<>>}
    ELSE UNION {{<<s[i]>> \o q : q \in Perms(SubSeq(s, 1, i - 1) \o SubSeq(s, i + 1, Len(s)))} :
                i \in 1..Len(s)}

RECURSIVE RunLen(_, _)
\* how many elements from index i on have the price of s[i]
RunLen(s, i) ==
    IF i < Len(s) /\ s[i + 1].Price = s[i].Price THEN 1 + RunLen(s, i + 1) ELSE 1

RECURSIVE TieOrders(_)
\* the sorted sequences that differ from the sorted s only in the order of
\* elements of equal price
TieOrders(s) ==
    IF s = <<>> THEN {<<>>}
    ELSE {q \o r : q \in Perms(SubSeq(s, 1, RunLen(s, 1))),
                   r \in TieOrders(SubSeq(s, RunLen(s, 1) + 1, Len(s)))}

\* sort.Slice(s, less): what it can leave in s.  Up to MaxInsertion elements
\* are sorted by insertion; a longer range that is in order already is left
\* as it is; any other longer range is partitioned around pivots, which
\* sorts it but promises no order among elements of equal price.
SortSlice(s, desc) ==
    IF Len(s) <= MaxInsertion THEN {InsertionSort(s, desc)}
    ELSE IF IsSorted(s, desc) THEN {s}
    ELSE TieOrders(InsertionSort(s, desc))

\* a faulty sortBids that leaves the slice as the caller gave it
SortBidsSkipped(bids) == {bids}

\* sortBids: descending by price
sortBids(bids) == SortSlice(bids, TRUE)

\* sortAsks: ascending by price
sortAsks(asks) == SortSlice(asks, FALSE)

\* a faulty truncation that cuts one level too many (orders[:height-1])
TruncateSideShort(orders, h) ==
    IF h > 0 /\ Len(orders) > h THEN SubSeq(orders, 1, h - 1) ELSE orders

\* one side of truncateOrders
truncateSide(orders, h) ==
    IF h > 0 /\ Len(orders) > h THEN SubSeq(orders, 1, h) ELSE orders

\* truncateOrders(height): <<bids, asks>>
truncateOrders(bids, asks, h) == <<truncateSide(bids, h), truncateSide(asks, h)>>

RECURSIVE MaxVolumeFrom(_, _)
\* one loop of calculateMaxVolume, from the running maximum m
MaxVolumeFrom(m, orders) ==
    IF orders = <<>> THEN m
    ELSE MaxVolumeFrom(IF Head(orders).Volume > m THEN Head(orders).Volume ELSE m,
                       Tail(orders))

\* a faulty calculateMaxVolume that starts from 1.0 so as never to return 0
MaxVolumeFromOne(bids, asks) == MaxVolumeFrom(MaxVolumeFrom(1, asks), bids)

\* a faulty calculateMaxVolume that forgets the loop over the bids
MaxVolumeAsksOnly(bids, asks) == MaxVolumeFrom(0, asks)

\* calculateMaxVolume(bids, asks)
calculateMaxVolume(bids, asks) == MaxVolumeFrom(MaxVolumeFrom(0, asks), bids)

-----------------------------------------------------------------------------
(* Row composer *)

\* padding := width - len(priceString) - len(volumeString), not below 0
Padding(w, priceString, volumeString) ==
    LET padding == w - Len(priceString) - Len(volumeString)
    IN  IF padding < 0 THEN 0 ELSE padding

\* a row whose slice expression panicked
NoRow(o, output, onLen, offLen) ==
    [order |-> o, output |-> output, onLen |-> onLen, offLen |-> offLen,
     ok |-> FALSE, offStr |-> <<>>, onStr |-> <<>>, bar |-> <<>>]

\* bar := lipgloss.JoinHorizontal(lipgloss.Right, offStr, onStr)
BidBar(o, output, onLen, offLen, offStr, onStr) ==
    [order |-> o, output |-> output, onLen |-> onLen, offLen |-> offLen,
     ok |-> TRUE, offStr |-> offStr, onStr |-> onStr,
     bar |-> JoinHorizontal("bottom", <<offStr, onStr>>)]

\* offStr and onStr of a bid row: output[:offLen] and output[offLen:]
BidSplit(o, output, onLen, offLen) ==
    IF SliceInRange(output, offLen)
    THEN BidBar(o, output, onLen, offLen,
                StyleRender(offLen, Slice(output, 0, offLen)),
                StyleRender(onLen, Slice(output, offLen, Len(output))))
    ELSE NoRow(o, output, onLen, offLen)

\* a faulty bid row text with the fields in the order of an ask row
BidOutputVolumeFirst(w, priceString, volumeString) ==
    volumeString \o Repeat(" ", Padding(w, priceString, volumeString)) \o priceString

\* output of a bid row: price, padding, volume
BidOutput(w, priceString, volumeString) ==
    priceString \o Repeat(" ", Padding(w, priceString, volumeString)) \o volumeString

\* offLen := width - onLen
BidLens(o, w, output, onLen) == BidSplit(o, output, onLen, WrapInt(w - onLen))

\* one pass of the loop of renderBids
renderBidRow(o, w, maxVolume, pricePrec, volPrec, nan) ==
    BidLens(o, w,
            BidOutput(w, Sprintf(pricePrec, o.Price), Sprintf(volPrec, o.Volume)),
            FloatOnLen(w, o.Volume, maxVolume, nan))

\* bar := lipgloss.JoinHorizontal(lipgloss.Left, onStr, offStr)
AskBar(o, output, onLen, offLen, onStr, offStr) ==
    [order |-> o, output |-> output, onLen |-> onLen, offLen |-> offLen,
     ok |-> TRUE, offStr |-> offStr, onStr |-> onStr,
     bar |-> JoinHorizontal("top", <<onStr, offStr>>)]

\* onStr and offStr of an ask row: output[:onLen] and output[onLen:]
AskSplit(o, output, onLen, offLen) ==
    IF SliceInRange(output, onLen)
    THEN AskBar(o, output, onLen, offLen,
                StyleRender(onLen, Slice(output, 0, onLen)),
                StyleRender(offLen, Slice(output, onLen, Len(output))))
    ELSE NoRow(o, output, onLen, offLen)

\* output of an ask row: volume, padding, price
AskOutput(w, priceString, volumeString) ==
    volumeString \o Repeat(" ", Padding(w, priceString, volumeString)) \o priceString

\* offLen := width - onLen
AskLens(o, w, output, onLen) == AskSplit(o, output, onLen, WrapInt(w - onLen))

\* one pass of the loop of renderAsks
renderAskRow(o, w, maxVolume, pricePrec, volPrec, nan) ==
    AskLens(o, w,
            AskOutput(w, Sprintf(pricePrec, o.Price), Sprintf(volPrec, o.Volume)),
            FloatOnLen(w, o.Volume, maxVolume, nan))

\* the first row of rows from index i on whose slice expression panics, or
\* Len(rows) when there is none
RECURSIVE LastRun(_, _)
LastRun(rows, i) ==
    IF i >= Len(rows) \/ ~rows[i].ok THEN Min(i, Len(rows)) ELSE LastRun(rows, i + 1)

\* the rows a render loop gets through: all of them, or those up to and
\* with the first one whose slice expression panics
RowsRun(rows) == SubSeq(rows, 1, LastRun(rows, 1))

RowsOk(rows) == \A i \in 1..Len(rows) : rows[i].ok

\* return lipgloss.JoinVertical(lipgloss.Left, rows...)
Column(rows, ok) ==
    [rows |-> rows, ok |-> ok,
     view |-> IF ok THEN JoinVertical([i \in 1..Len(rows) |-> rows[i].bar]) ELSE <<>>]

ColumnOf(rows) == Column(rows, RowsOk(rows))

\* renderBids(orders, width, maxVolume): the rows and the joined column
renderBids(orders, w, maxVolume, pricePrec, volPrec, nan) ==
    ColumnOf(RowsRun([i \in 1..Len(orders) |->
                renderBidRow(orders[i], w, maxVolume, pricePrec, volPrec, nan)]))

\* renderAsks(orders, width, maxVolume): the rows and the joined column
renderAsks(orders, w, maxVolume, pricePrec, volPrec, nan) ==
    ColumnOf(RowsRun([i \in 1..Len(orders) |->
                renderAskRow(orders[i], w, maxVolume, pricePrec, volPrec, nan)]))

-----------------------------------------------------------------------------
(* The model's methods *)

Placeholder == <<"I", "n", "i", "t", "i", "a", "l", "i", "z", "i", "n", "g",
                 ".", ".", ".">>

\* what `last` holds before any call
NoCall == [kind |-> "none", Width |-> 0, Height |-> 0, sorted |-> FALSE,
           bids |-> <<>>, asks |-> <<>>, columnWidth |-> 0, maxVolume |-> 0,
           bidRows |-> <<>>, askRows |-> <<>>, text |-> <<>>]

\* a column that was not rendered because the call had panicked already
NotRendered == [rows |-> <<>>, ok |-> FALSE, view |-> <<>>]

\* the spacer, the joined panel and its placement: the record of the call
ComposePanel(bids, asks, columnWidth, maxVolume, bidView, askView, ok, spacing, W, H) ==
    [kind |-> IF ok THEN "panel" ELSE "panic",
     Width |-> W, Height |-> H, sorted |-> TRUE,
     bids |-> bids, asks |-> asks,
     columnWidth |-> columnWidth, maxVolume |-> maxVolume,
     bidRows |-> bidView.rows, askRows |-> askView.rows,
     text |-> IF ok
              THEN Place(W, H, JoinHorizontal("top",
                        <<bidView.view, StyleRender(spacing, <<>>), askView.view>>))
              ELSE <<>>]

ComposeViews(bids, asks, columnWidth, maxVolume, bidView, askView, spacing, W, H) ==
    ComposePanel(bids, asks, columnWidth, maxVolume, bidView, askView,
                 bidView.ok /\ askView.ok, spacing, W, H)

\* askView := m.renderAsks(asks, columnWidth, maxVolume), reached when
\* renderBids returned
RenderAskSide(bids, asks, columnWidth, maxVolume, bidView, spacing, pricePrec, volPrec, W, H, nan) ==
    ComposeViews(bids, asks, columnWidth, maxVolume, bidView,
                 IF bidView.ok
                 THEN renderAsks(asks, columnWidth, maxVolume, pricePrec, volPrec, nan)
                 ELSE NotRendered,
                 spacing, W, H)

\* bidView := m.renderBids(bids, columnWidth, maxVolume)
RenderBidSide(bids, asks, columnWidth, maxVolume, spacing, pricePrec, volPrec, W, H, nan) ==
    RenderAskSide(bids, asks, columnWidth, maxVolume,
                  renderBids(bids, columnWidth, maxVolume, pricePrec, volPrec, nan),
                  spacing, pricePrec, volPrec, W, H, nan)

\* columnWidth := (opts.Width - m.Spacing) / 2 and
\* maxVolume := m.calculateMaxVolume(bids, asks)
RenderCut(cut, spacing, pricePrec, volPrec, W, H, nan) ==
    RenderBidSide(cut[1], cut[2], QuoInt(W - spacing, 2),
                  calculateMaxVolume(cut[1], cut[2]),
                  spacing, pricePrec, volPrec, W, H, nan)

\* the body of ViewWithOptions after the Width test, on the sorted slices:
\* the record of the call
RenderBook(sortedBids, sortedAsks, spacing, pricePrec, volPrec, W, H, nan) ==
    RenderCut(truncateOrders(sortedBids, sortedAsks, H),
              spacing, pricePrec, volPrec, W, H, nan)

\* what the conversions of a call can give: a NaN is converted only when a
\* row is rendered with maxVolume = 0
NaNResultsOf(cut) ==
    IF calculateMaxVolume(cut[1], cut[2]) = 0 /\ Len(cut[1]) + Len(cut[2]) > 0
    THEN NaNToInt ELSE {0}

NaNResults(sortedBids, sortedAsks, H) ==
    NaNResultsOf(truncateOrders(sortedBids, sortedAsks, H))

\* a faulty ViewWithOptions that stores the truncated slices in the model
ViewWithOptionsStoringCut(W, H) ==
    IF W = 0
    THEN /\ last' = [NoCall EXCEPT !.kind = "placeholder", !.Width = W,
                                   !.Height = H, !.text = <<Placeholder>>]
         /\ UNCHANGED <<Bids, Asks, Spacing, PricePrecision, VolumePrecision,
                        width, height, callerBids, callerAsks, untouched>>
    ELSE /\ \E sb \in sortBids(Bids), sa \in sortAsks(Asks) :
              /\ Bids' = truncateOrders(sb, sa, H)[1]
              /\ Asks' = truncateOrders(sb, sa, H)[2]
              /\ \E nan \in NaNResults(sb, sa, H) :
                   last' = RenderBook(sb, sa, Spacing, PricePrecision,
                                      VolumePrecision, W, H, nan)
         /\ UNCHANGED <<Spacing, PricePrecision, VolumePrecision, width, height,
                        callerBids, callerAsks, untouched>>

\* m.ViewWithOptions(ViewOptions{Width: W, Height: H})
ViewWithOptions(W, H) ==
    IF W = 0
    THEN /\ last' = [NoCall EXCEPT !.kind = "placeholder", !.Width = W,
                                   !.Height = H, !.text = <<Placeholder>>]
         /\ UNCHANGED <<Bids, Asks, Spacing, PricePrecision, VolumePrecision,
                        width, height, callerBids, callerAsks, untouched>>
    ELSE /\ Bids' \in sortBids(Bids)
         /\ Asks' \in sortAsks(Asks)
         /\ \E nan \in NaNResults(Bids', Asks', H) :
              last' = RenderBook(Bids', Asks', Spacing, PricePrecision,
                                 VolumePrecision, W, H, nan)
         /\ UNCHANGED <<Spacing, PricePrecision, VolumePrecision, width, height,
                        callerBids, callerAsks, untouched>>

\* a call of ViewWithOptions with a viewport of the caller's choice
CallViewWithOptions == \E opts \in Viewports : ViewWithOptions(opts[1], opts[2])

\* m.View()
View == ViewWithOptions(width, height)

\* a faulty Update that stores the message's fields crosswise
UpdateWindowSizeCrossed ==
    \E msg \in WindowSizes :
        /\ width' = msg.Height
        /\ height' = msg.Width
        /\ UNCHANGED <<Bids, Asks, Spacing, PricePrecision, VolumePrecision,
                       callerBids, callerAsks, last, untouched>>

\* m.Update(tea.WindowSizeMsg{...})
UpdateWindowSize ==
    \E msg \in WindowSizes :
        /\ width' = msg.Width
        /\ height' = msg.Height
        /\ UNCHANGED <<Bids, Asks, Spacing, PricePrecision, VolumePrecision,
                       callerBids, callerAsks, last, untouched>>

\* m.Update(msg) for any other message
UpdateOther == UNCHANGED vars

BoundedSeq(S, n) == UNION {[1..k -> S] : k \in 0..n}

\* what `lastFetch` holds before any call of fetchOrderBook
NoFetch ==
    [kind |-> "none", forceRefetch |-> FALSE, cacheBefore |-> <<>>,
     tokenizedBefore |-> FALSE, contacted |-> FALSE, err |-> "",
     book |-> <<>>, isTokenized |-> FALSE, lastContact |-> "none"]

\* what `screen` holds before any View of the demo
NoScreen == [rest |-> <<>>, ws |-> <<>>]

\* a panel used on its own, outside the demo
NoDemo ==
    /\ lastFetch = NoFetch
    /\ screen = NoScreen
    /\ wclob = [Orientation |-> "Horizontal", Alignment |-> "AlignLeft"]
    /\ mainModel = [width |-> 0, height |-> 0, loading |-> FALSE]
    /\ market = <<>>
    /\ orderBookCache = <<>>
    /\ isTokenizedCache = FALSE
    /\ inflight = 0
    /\ presses = [v |-> 0, a |-> 0]
    /\ quit = FALSE

\* New(), then the caller's assignments to the exported fields
Init ==
    /\ Bids \in BoundedSeq(BidLevels, MaxLevels)
    /\ Asks \in BoundedSeq(AskLevels, MaxLevels - Len(Bids))
    /\ callerBids = Bids
    /\ callerAsks = Asks
    /\ \E c \in Configs :
          /\ Spacing = c.Spacing
          /\ PricePrecision = c.PricePrecision
          /\ VolumePrecision = c.VolumePrecision
    /\ width = 0
    /\ height = 0
    /\ last = NoCall
    /\ Orientation = "Horizontal"
    /\ Alignment = "AlignLeft"
    /\ NoDemo

Next == CallViewWithOptions \/ View \/ UpdateWindowSize \/ UpdateOther

Spec == Init /\ [][Next]_vars

\* the same model with a bid side longer than MaxInsertion
InitDeep ==
    /\ Bids \in DeepBids
    /\ Asks \in BoundedSeq(AskLevels, 1)
    /\ callerBids = Bids
    /\ callerAsks = Asks
    /\ \E c \in Configs :
          /\ Spacing = c.Spacing
          /\ PricePrecision = c.PricePrecision
          /\ VolumePrecision = c.VolumePrecision
    /\ width = 0
    /\ height = 0
    /\ last = NoCall
    /\ Orientation = "Horizontal"
    /\ Alignment = "AlignLeft"
    /\ NoDemo

SpecDeep == InitDeep /\ [][Next]_vars

-----------------------------------------------------------------------------
(* The Vertical orientation (asks stacked over a spread row over bids).    *)
(* src/clob/clob.go has no Orientation or Alignment field; what a model    *)
(* with Orientation = Vertical renders is taken from the design            *)
(* (sections 4.1 to 4.5).                                                  *)

\* the book of the design's scenarios
ScenarioBids == {[Price |-> 99, Volume |-> 1], [Price |-> 98, Volume |-> 20],
                 [Price |-> 97, Volume |-> 40]}
ScenarioAsks == {[Price |-> 100, Volume |-> 5], [Price |-> 101, Volume |-> 10],
                 [Price |-> 102, Volume |-> 20]}

\* the viewports asked for in Vertical orientation: <<Width, Height>>
StackedViewports == ({40} \X {0, 1, 2, 3, 5, 7}) \cup {<<0, 7>>, <<-1, 7>>}

\* the sequences of distinct elements of S
Arrangements(S) ==
    {q \in BoundedSeq(S, Cardinality(S)) :
        \A i, j \in 1..Len(q) : i # j => q[i] # q[j]}

\* rows per side: one row of the height is kept for the spread
RowBudget(H) == (H - 1) \div 2

\* the best bids: the first `rows` of the descending bids
StackedBids(bids, rows) ==
    IF rows <= 0 \/ Len(bids) <= rows THEN bids ELSE SubSeq(bids, 1, rows)

\* a faulty cut of the asks that keeps the first `rows` of the descending list
StackedAsksHead(asks, rows) ==
    IF rows <= 0 \/ Len(asks) <= rows THEN asks ELSE SubSeq(asks, 1, rows)

\* the best asks: the last `rows` of the descending asks
StackedAsks(asks, rows) ==
    IF rows <= 0 \/ Len(asks) <= rows THEN asks
    ELSE SubSeq(asks, Len(asks) - rows + 1, Len(asks))

\* onLen = floor(width * volume / maxVolume), 0 if maxVolume = 0, kept
\* within 0..width
StackedOnLen(w, volume, maxVolume) ==
    IF maxVolume = 0 THEN 0 ELSE Max(0, Min(w, (w * volume) \div maxVolume))

\* row text: volume, pad, price when the bar is left, price, pad, volume
\* when it is right
StackedOutput(w, priceString, volumeString, alignment) ==
    IF alignment = "AlignLeft"
    THEN volumeString \o Repeat(" ", Padding(w, priceString, volumeString)) \o priceString
    ELSE priceString \o Repeat(" ", Padding(w, priceString, volumeString)) \o volumeString

\* the two spans of a row: the bar is the leading onLen characters when the
\* bar is left, the trailing onLen characters when it is right
StackedSplit(o, output, onLen, offLen, alignment) ==
    [order |-> o, output |-> output, onLen |-> onLen, offLen |-> offLen, ok |-> TRUE,
     onStr |-> <<IF alignment = "AlignLeft" THEN Slice(output, 0, onLen)
                 ELSE Slice(output, Len(output) - onLen, Len(output))>>,
     offStr |-> <<IF alignment = "AlignLeft" THEN Slice(output, onLen, Len(output))
                  ELSE Slice(output, 0, Len(output) - onLen)>>,
     bar |-> <<output>>]

StackedLens(o, w, output, onLen, alignment) ==
    StackedSplit(o, output, onLen, w - onLen, alignment)

\* the row composer for one level of a stacked panel
StackedRow(o, w, maxVolume, pricePrec, volPrec, alignment) ==
    StackedLens(o, w,
                StackedOutput(w, Sprintf(pricePrec, o.Price), Sprintf(volPrec, o.Volume),
                              alignment),
                StackedOnLen(w, o.Volume, maxVolume), alignment)

StackedRows(orders, w, maxVolume, pricePrec, volPrec, alignment) ==
    [i \in 1..Len(orders) |->
        StackedRow(orders[i], w, maxVolume, pricePrec, volPrec, alignment)]

SpreadLabel == <<"S", "p", "r", "e", "a", "d", ":", " ">>

\* the spread text in a row of W columns: at the right when the bar is left,
\* at the left when the bar is right
SpreadAligned(text, W, alignment) ==
    IF alignment = "AlignLeft" THEN Repeat(" ", W - Len(text)) \o text
    ELSE text \o Repeat(" ", W - Len(text))

\* a faulty spread that takes the best ask from the head of the descending
\* asks, as the best bid is taken from the head of the bids
SpreadRowHead(bids, asks, W, pricePrec, alignment) ==
    IF bids = <<>> \/ asks = <<>> THEN Repeat(" ", W)
    ELSE SpreadAligned(SpreadLabel \o Sprintf(pricePrec, asks[1].Price - bids[1].Price),
                       W, alignment)

\* the spread row, from the full descending lists: best ask (the last ask)
\* minus best bid (the first bid); blank if a side is empty
SpreadRow(bids, asks, W, pricePrec, alignment) ==
    IF bids = <<>> \/ asks = <<>> THEN Repeat(" ", W)
    ELSE SpreadAligned(SpreadLabel \o Sprintf(pricePrec, asks[Len(asks)].Price - bids[1].Price),
                       W, alignment)

\* the lines of the rows, top to bottom
RowLines(rows) == [i \in 1..Len(rows) |-> rows[i].output]

\* ask rows over the spread row over bid rows, centred in W x H
StackedPanel(bids, asks, maxVolume, bidRows, askRows, spread, W, H) ==
    [kind |-> "stacked", Width |-> W, Height |-> H, sorted |-> TRUE,
     bids |-> bids, asks |-> asks, columnWidth |-> W, maxVolume |-> maxVolume,
     bidRows |-> bidRows, askRows |-> askRows, spread |-> spread,
     panel |-> RowLines(askRows) \o <<spread>> \o RowLines(bidRows),
     text |-> Place(W, H, RowLines(askRows) \o <<spread>> \o RowLines(bidRows))]

StackedScaled(bids, asks, maxVolume, spread, pricePrec, volPrec, alignment, W, H) ==
    StackedPanel(bids, asks, maxVolume,
                 StackedRows(bids, W, maxVolume, pricePrec, volPrec, alignment),
                 StackedRows(asks, W, maxVolume, pricePrec, volPrec, alignment),
                 spread, W, H)

StackedCut(bids, asks, spread, pricePrec, volPrec, alignment, W, H) ==
    StackedScaled(bids, asks, calculateMaxVolume(bids, asks), spread,
                  pricePrec, volPrec, alignment, W, H)

\* the stacked render of the descending bids and the descending asks
StackedBook(bids, asks, pricePrec, volPrec, alignment, W, H) ==
    StackedCut(StackedBids(bids, RowBudget(H)), StackedAsks(asks, RowBudget(H)),
               SpreadRow(bids, asks, W, pricePrec, alignment),
               pricePrec, volPrec, alignment, W, H)

\* ViewWithOptions of a model in Vertical orientation: ordered copies of the
\* two sides are rendered, the stored book stays as it is
ViewStacked(W, H) ==
    /\ Orientation = "Vertical"
    /\ last' = IF W <= 0
               THEN [NoCall EXCEPT !.kind = "placeholder", !.Width = W,
                                   !.Height = H, !.text = <<Placeholder>>]
               ELSE StackedBook(InsertionSort(Bids, TRUE), InsertionSort(Asks, TRUE),
                                PricePrecision, VolumePrecision, Alignment, W, H)
    /\ UNCHANGED <<Bids, Asks, Spacing, PricePrecision, VolumePrecision, width, height,
                   callerBids, callerAsks, untouched>>

CallViewStacked == \E opts \in StackedViewports : ViewStacked(opts[1], opts[2])

\* View of a model in Vertical orientation
ViewStackedCached == ViewStacked(width, height)

\* New(), then the caller's assignments, Orientation = Vertical among them
InitStacked ==
    /\ Bids \in Arrangements(ScenarioBids)
    /\ Asks \in Arrangements(ScenarioAsks)
    /\ callerBids = Bids
    /\ callerAsks = Asks
    /\ Spacing = 1
    /\ PricePrecision = 2
    /\ VolumePrecision = 2
    /\ width = 0
    /\ height = 0
    /\ last = NoCall
    /\ Orientation = "Vertical"
    /\ Alignment \in {"AlignLeft", "AlignRight"}
    /\ NoDemo

NextStacked == CallViewStacked \/ ViewStackedCached \/ UpdateWindowSize \/ UpdateOther

SpecStacked == InitStacked /\ [][NextStacked]_vars

-----------------------------------------------------------------------------
(* The demo application (src/unnamed/part_000; src/_examples/main.go is    *)
(* the same program without the market flag and the 'r' key).  Its REST    *)
(* panel m.rclob is the panel of the variables above; m.wclob is a second  *)
(* panel of which only Orientation and Alignment ever matter here.         *)

\* the books the API answers with: asks and bids of [price, volume] strings,
\* each string a whole number or not a number
ApiBooks ==
    {[Asks |-> <<<<<<"1", "0", "1">>, <<"5">>>>>>,
      Bids |-> <<<<<<"9", "9">>, <<"n", "a">>>>>>],
     [Asks |-> <<>>,
      Bids |-> <<<<<<"9", "9">>, <<"5">>>>>>]}

\* the markets of the -market flag: <<>> is the empty string
Markets == {<<>>, <<"X", "B", "T">>}
\* the market pairs fetchOrderBook is called with
MarketPairs == {<<"X", "B", "T">>, <<"A", "A", "P", "L", "x">>}

Digit(c) ==
    CASE c = "0" -> 0 [] c = "1" -> 1 [] c = "2" -> 2 [] c = "3" -> 3
      [] c = "4" -> 4 [] c = "5" -> 5 [] c = "6" -> 6 [] c = "7" -> 7
      [] c = "8" -> 8 [] c = "9" -> 9 [] OTHER -> -1

RECURSIVE DecimalValue(_, _)
DecimalValue(str, acc) ==
    IF str = <<>> THEN acc
    ELSE DecimalValue(Tail(str), 10 * acc + Digit(Head(str)))

\* strconv.ParseFloat(str, 64) with the error dropped: 0 when str is no number
ParseFloat(str) ==
    IF str # <<>> /\ \A i \in 1..Len(str) : Digit(str[i]) >= 0
    THEN DecimalValue(str, 0)
    ELSE 0

\* one side of parseOrderBook
ParseSide(side) ==
    [i \in 1..Len(side) |->
        [Price |-> ParseFloat(side[i][1]), Volume |-> ParseFloat(side[i][2])]]

parseOrderBook(orderBook) ==
    [asks |-> ParseSide(orderBook.Asks), bids |-> ParseSide(orderBook.Bids)]

\* the panel's own state, which the key branches of the demo leave alone
panel == <<Bids, Asks, Spacing, PricePrecision, VolumePrecision, width, height,
           callerBids, callerAsks, last>>

\* the four places where fetchOrderBook returns an error
FetchErrors == {"crypto asset pairs", "tokenized asset pairs", "pair not found",
                "order book"}

\* what a call that contacts the API can come back with: the two globals as
\* the call leaves them (cache, tokenized), and the values it returns (book,
\* isTokenized, why: "" for a nil error)
ApiAnswers(cache, tokenized) ==
    {[cache |-> <<>>, tokenized |-> tokenized, err |-> TRUE, contacted |-> TRUE,
      book |-> <<>>, isTokenized |-> FALSE, why |-> e] : e \in FetchErrors}
    \cup {[cache |-> <<b>>, tokenized |-> t, err |-> FALSE, contacted |-> TRUE,
           book |-> <<b>>, isTokenized |-> t, why |-> ""] :
             b \in ApiBooks, t \in BOOLEAN}

\* a faulty fetchOrderBook that keeps the cached book when forced
FetchKeepingCache(cache, tokenized, forceRefetch) ==
    IF ~forceRefetch /\ cache # <<>>
    THEN {[cache |-> cache, tokenized |-> tokenized, err |-> FALSE,
           contacted |-> FALSE, book |-> cache, isTokenized |-> tokenized,
           why |-> ""]}
    ELSE {[a EXCEPT !.cache = IF a.err THEN cache ELSE a.cache] :
             a \in ApiAnswers(cache, tokenized)}

\* fetchOrderBook(market, forceRefetch): the outcomes
fetchOrderBook(cache, tokenized, forceRefetch) ==
    IF ~forceRefetch /\ cache # <<>>
    THEN {[cache |-> cache, tokenized |-> tokenized, err |-> FALSE,
           contacted |-> FALSE, book |-> cache, isTokenized |-> tokenized,
           why |-> ""]}
    ELSE ApiAnswers(cache, tokenized)

\* the record of a call and of its outcome
FetchRecord(forceRefetch, out) ==
    [kind |-> "call", forceRefetch |-> forceRefetch,
     cacheBefore |-> orderBookCache, tokenizedBefore |-> isTokenizedCache,
     contacted |-> out.contacted, err |-> out.why, book |-> out.book,
     isTokenized |-> out.isTokenized,
     lastContact |-> IF ~out.contacted THEN lastFetch.lastContact
                     ELSE IF out.err THEN "failed" ELSE "ok"]

\* a call of fetchOrderBook(market, forceRefetch) from anywhere in package main
CallFetchOrderBook ==
    /\ \E forceRefetch \in BOOLEAN :
         \E out \in fetchOrderBook(orderBookCache, isTokenizedCache, forceRefetch) :
            /\ orderBookCache' = out.cache
            /\ isTokenizedCache' = out.tokenized
            /\ lastFetch' = FetchRecord(forceRefetch, out)
    /\ UNCHANGED <<panel, Orientation, Alignment, wclob, mainModel, market, inflight,
                   presses, quit, screen>>

\* package main before any call, with a market given
InitFetch ==
    /\ Bids = <<>>
    /\ Asks = <<>>
    /\ callerBids = <<>>
    /\ callerAsks = <<>>
    /\ Spacing = 1
    /\ PricePrecision = 2
    /\ VolumePrecision = 2
    /\ width = 0
    /\ height = 0
    /\ last = NoCall
    /\ Orientation = "Horizontal"
    /\ Alignment = "AlignLeft"
    /\ wclob = [Orientation |-> "Horizontal", Alignment |-> "AlignLeft"]
    /\ mainModel = [width |-> 0, height |-> 0, loading |-> FALSE]
    /\ market \in MarketPairs
    /\ orderBookCache = <<>>
    /\ isTokenizedCache = FALSE
    /\ inflight = 0
    /\ presses = [v |-> 0, a |-> 0]
    /\ quit = FALSE
    /\ lastFetch = NoFetch
    /\ screen = NoScreen

NextFetch == CallFetchOrderBook

SpecFetch == InitFetch /\ [][NextFetch]_vars

\* the books mockBids() and mockAsks() return
mockBids == <<[Price |-> 99, Volume |-> 1], [Price |-> 98, Volume |-> 20],
              [Price |-> 97, Volume |-> 40]>>
mockAsks == <<[Price |-> 100, Volume |-> 5], [Price |-> 101, Volume |-> 10],
              [Price |-> 102, Volume |-> 20]>>

\* a faulty 'a' branch that never goes back to AlignLeft
ToggleAlignmentOneWay(a) == IF a = "AlignLeft" THEN "AlignRight" ELSE "AlignRight"

\* the 'v' branch of Update
ToggleOrientation(o) == IF o = "Vertical" THEN "Horizontal" ELSE "Vertical"

\* the 'a' branch of Update
ToggleAlignment(a) == IF a = "AlignLeft" THEN "AlignRight" ELSE "AlignLeft"

\* Update(tea.WindowSizeMsg), m.rclob.Update(msg) at its end included
AppWindowSize ==
    /\ ~quit
    /\ \E msg \in TerminalSizes :
        /\ mainModel' = [mainModel EXCEPT !.width = msg.Width, !.height = msg.Height]
        /\ width' = msg.Width
        /\ height' = msg.Height
    /\ UNCHANGED <<Bids, Asks, Spacing, PricePrecision, VolumePrecision,
                   callerBids, callerAsks, last, Orientation, Alignment, wclob,
                   market, orderBookCache, isTokenizedCache, inflight, presses, quit,
                   lastFetch, screen>>

\* Update(tea.KeyMsg) for "ctrl+c" and "q"
AppKeyQuit ==
    /\ ~quit
    /\ quit' = TRUE
    /\ UNCHANGED <<panel, Orientation, Alignment, wclob, mainModel, market,
                   orderBookCache, isTokenizedCache, inflight, presses, lastFetch,
                   screen>>

\* Update(tea.KeyMsg) for "r"
AppKeyRefresh ==
    /\ ~quit
    /\ inflight < MaxInflight
    /\ mainModel' = [mainModel EXCEPT !.loading = TRUE]
    /\ inflight' = inflight + 1
    /\ UNCHANGED <<panel, Orientation, Alignment, wclob, market, orderBookCache,
                   isTokenizedCache, presses, quit, lastFetch, screen>>

\* Update(tea.KeyMsg) for "v"
AppKeyV ==
    /\ ~quit
    /\ Orientation' = ToggleOrientation(Orientation)
    /\ presses' = [presses EXCEPT !.v = 1 - @]
    /\ UNCHANGED <<panel, Alignment, wclob, mainModel, market, orderBookCache,
                   isTokenizedCache, inflight, quit, lastFetch, screen>>

\* Update(tea.KeyMsg) for "a"
AppKeyA ==
    /\ ~quit
    /\ wclob' = [wclob EXCEPT !.Alignment = ToggleAlignment(@)]
    /\ presses' = [presses EXCEPT !.a = 1 - @]
    /\ UNCHANGED <<panel, Orientation, Alignment, mainModel, market,
                   orderBookCache, isTokenizedCache, inflight, quit, lastFetch,
                   screen>>

\* Update(tea.KeyMsg) for any other key
AppKeyOther ==
    /\ ~quit
    /\ UNCHANGED vars

\* what the refetchMsg branch does with the outcome of the forced fetch
RefetchApply(out) ==
    /\ orderBookCache' = out.cache
    /\ isTokenizedCache' = out.tokenized
    /\ lastFetch' = FetchRecord(TRUE, out)
    /\ IF out.err
       THEN UNCHANGED <<Bids, Asks, callerBids, callerAsks>>
       ELSE /\ Asks' = parseOrderBook(out.cache[1]).asks
            /\ Bids' = parseOrderBook(out.cache[1]).bids
            /\ callerAsks' = Asks'
            /\ callerBids' = Bids'

\* a faulty refetchMsg branch that clears m.loading only after a fetch that
\* succeeded
AppRefetchStillLoading ==
    /\ ~quit
    /\ inflight > 0
    /\ inflight' = inflight - 1
    /\ IF market # <<>>
       THEN \E out \in fetchOrderBook(orderBookCache, isTokenizedCache, TRUE) :
                /\ RefetchApply(out)
                /\ mainModel' = [mainModel EXCEPT !.loading = @ /\ out.err]
       ELSE UNCHANGED <<Bids, Asks, callerBids, callerAsks, orderBookCache,
                        isTokenizedCache, lastFetch, mainModel>>
    /\ UNCHANGED <<Spacing, PricePrecision, VolumePrecision, width, height, last,
                   Orientation, Alignment, wclob, market, presses, quit, screen>>

\* Update(refetchMsg)
AppRefetch ==
    /\ ~quit
    /\ inflight > 0
    /\ inflight' = inflight - 1
    /\ mainModel' = [mainModel EXCEPT !.loading = FALSE]
    /\ IF market # <<>>
       THEN \E out \in fetchOrderBook(orderBookCache, isTokenizedCache, TRUE) :
                RefetchApply(out)
       ELSE UNCHANGED <<Bids, Asks, callerBids, callerAsks, orderBookCache,
                        isTokenizedCache, lastFetch>>
    /\ UNCHANGED <<Spacing, PricePrecision, VolumePrecision, width, height, last,
                   Orientation, Alignment, wclob, market, presses, quit, screen>>

\* panelStyle: a rounded border (1 cell a side) and Padding(1, 2)
HorizontalFrameSize == 6
VerticalFrameSize == 4

\* availRWidth and availWWidth of View
AvailWidth(w) == WrapInt(QuoInt(w, 2) - HorizontalFrameSize * 2)
\* availHeight of View
AvailHeight(h) == WrapInt(WrapInt(h - 1) - VerticalFrameSize)

Loading == <<"L", "o", "a", "d", "i", "n", "g", ".", ".", ".">>

\* m.wclob.ViewWithOptions: the mock book in Vertical orientation
WsPanelContent(W, H) ==
    IF W <= 0 THEN <<Placeholder>>
    ELSE StackedBook(InsertionSort(mockBids, TRUE), InsertionSort(mockAsks, TRUE),
                     2, 8, wclob.Alignment, W, H).text

\* m.rclob.ViewWithOptions of View while m.rclob is in Vertical orientation
RestStacked(W, H) ==
    /\ last' = IF W <= 0
               THEN [NoCall EXCEPT !.kind = "placeholder", !.Width = W,
                                   !.Height = H, !.text = <<Placeholder>>]
               ELSE StackedBook(InsertionSort(Bids, TRUE), InsertionSort(Asks, TRUE),
                                PricePrecision, VolumePrecision, Alignment, W, H)
    /\ UNCHANGED <<Bids, Asks>>

\* m.rclob.ViewWithOptions of View while m.rclob is in Horizontal orientation
RestSideBySide(W, H) ==
    IF W = 0
    THEN /\ last' = [NoCall EXCEPT !.kind = "placeholder", !.Width = W,
                                   !.Height = H, !.text = <<Placeholder>>]
         /\ UNCHANGED <<Bids, Asks>>
    ELSE /\ Bids' \in sortBids(Bids)
         /\ Asks' \in sortAsks(Asks)
         /\ \E nan \in NaNResults(Bids', Asks', H) :
              last' = RenderBook(Bids', Asks', Spacing, PricePrecision,
                                 VolumePrecision, W, H, nan)

\* the REST panel and the right panel of View
RestPanel(W, H) ==
    IF mainModel.loading
    THEN /\ screen' = [rest |-> <<Loading>>, ws |-> WsPanelContent(W, H)]
         /\ UNCHANGED <<Bids, Asks, last, quit>>
    ELSE /\ IF Orientation = "Vertical" THEN RestStacked(W, H) ELSE RestSideBySide(W, H)
         /\ screen' = [rest |-> last'.text, ws |-> WsPanelContent(W, H)]
         /\ quit' = (last'.kind = "panic")

\* View() of the demo
AppView ==
    /\ ~quit
    /\ RestPanel(AvailWidth(mainModel.width), AvailHeight(mainModel.height))
    /\ UNCHANGED <<Spacing, PricePrecision, VolumePrecision, width, height,
                   callerBids, callerAsks, Orientation, Alignment, wclob, mainModel,
                   market, orderBookCache, isTokenizedCache, inflight, presses,
                   lastFetch>>

\* the book InitialModel puts in m.rclob: the fetched one when a market is
\* given (a failed fetch ends the program), the mock one otherwise
InitialBook(out) ==
    /\ ~out.err
    /\ orderBookCache = out.cache
    /\ isTokenizedCache = out.tokenized
    /\ lastFetch = [NoFetch EXCEPT !.kind = "call", !.contacted = TRUE,
                                   !.book = out.book,
                                   !.isTokenized = out.isTokenized,
                                   !.lastContact = "ok"]
    /\ Asks = parseOrderBook(out.cache[1]).asks
    /\ Bids = parseOrderBook(out.cache[1]).bids

\* main(): the flag, then InitialModel()
InitApp ==
    /\ market \in Markets
    /\ IF market # <<>>
       THEN \E out \in fetchOrderBook(<<>>, FALSE, FALSE) : InitialBook(out)
       ELSE /\ orderBookCache = <<>>
            /\ isTokenizedCache = FALSE
            /\ lastFetch = NoFetch
            /\ Asks = mockAsks
            /\ Bids = mockBids
    /\ callerBids = Bids
    /\ callerAsks = Asks
    /\ Spacing = 1
    /\ PricePrecision = 2
    /\ VolumePrecision = 8
    /\ width = 0
    /\ height = 0
    /\ last = NoCall
    /\ Orientation = "Horizontal"
    /\ Alignment = "AlignLeft"
    /\ wclob = [Orientation |-> "Vertical", Alignment |-> "AlignLeft"]
    /\ mainModel = [width |-> 0, height |-> 0, loading |-> FALSE]
    /\ inflight = 0
    /\ presses = [v |-> 0, a |-> 0]
    /\ quit = FALSE
    /\ screen = NoScreen

NextApp == AppWindowSize \/ AppKeyQuit \/ AppKeyRefresh \/ AppKeyV \/ AppKeyA \/ AppKeyOther \/ AppRefetch \/ AppView

SpecApp == InitApp /\ [][NextApp]_vars

\* the demo with every emitted refetchMsg delivered while the program runs
SpecAppLive == SpecApp /\ WF_vars(AppRefetch)

-----------------------------------------------------------------------------
(* Properties *)

\* the levels of the rows a call rendered, top to bottom
OrdersOf(rows) == [i \in 1..Len(rows) |-> rows[i].order]

\* every row a call rendered, bids then asks
RowsOf(call) == call.bidRows \o call.askRows

\* the call got past the Width test
Ran(call) == call.sorted

\* C1: for every book, every Spacing >= 0 and every viewport (negative and
\* small widths too) ViewWithOptions returns a text block and never panics.
C1_Total == last.kind # "panic"

\* C2: when every visible level has volume 0 and one is visible, every row
\* has onLen = 0 and offLen = width and the render completes (stated for
\* row widths >= 0).
C2_ZeroVolumeSafe ==
    (Ran(last) /\ last.maxVolume = 0 /\ Len(last.bids) + Len(last.asks) > 0
        /\ last.columnWidth >= 0)
    => /\ last.kind = "panel"
       /\ \A i \in 1..Len(RowsOf(last)) :
            /\ RowsOf(last)[i].onLen = 0
            /\ RowsOf(last)[i].offLen = last.columnWidth

\* C3: the bid prices a call renders are non-increasing from top to bottom
\* and the ask prices non-decreasing, whatever the order of insertion.
C3_SortOrder ==
    Ran(last)
    => /\ \A i, j \in 1..Len(last.bids) :
            i < j => last.bids[i].Price >= last.bids[j].Price
       /\ \A i, j \in 1..Len(last.asks) :
            i < j => last.asks[i].Price <= last.asks[j].Price
       /\ \A i, j \in 1..Len(last.bidRows) :
            i < j => last.bidRows[i].order.Price >= last.bidRows[j].order.Price
       /\ \A i, j \in 1..Len(last.askRows) :
            i < j => last.askRows[i].order.Price <= last.askRows[j].order.Price

\* C3 witness: the caller gave two bids in ascending price order and a panel
\* with both bid rows was rendered.
C3_Witness ==
    /\ last.kind = "panel"
    /\ Len(callerBids) >= 2
    /\ callerBids[1].Price < callerBids[2].Price
    /\ Len(last.bidRows) >= 2
    /\ last.bidRows[1].order.Price > last.bidRows[2].order.Price

\* C4: with rows = Height > 0 the visible bids (asks) are the first
\* min(len, rows) sorted bids (asks); with rows <= 0 the full sorted lists;
\* a rendered panel has one row per visible level and no other row.
C4_DepthTruncation ==
    Ran(last)
    => /\ last.bids = IF last.Height > 0
                      THEN SubSeq(Bids, 1, Min(Len(Bids), last.Height))
                      ELSE Bids
       /\ last.asks = IF last.Height > 0
                      THEN SubSeq(Asks, 1, Min(Len(Asks), last.Height))
                      ELSE Asks
       /\ last.kind = "panel"
          => /\ OrdersOf(last.bidRows) = last.bids
             /\ OrdersOf(last.askRows) = last.asks

\* C4 witness: a panel whose bids were cut to Height rows.
C4_Witness ==
    /\ last.kind = "panel"
    /\ last.Height > 0
    /\ Len(Bids) > last.Height
    /\ Len(last.bidRows) = last.Height

\* C5: after a call the Bids and Asks sequences the caller assigned are in
\* the order the caller gave them.
C5_CallerOrderKept == Bids = callerBids /\ Asks = callerAsks

\* C6: a call with Width <= 0 returns the placeholder text and sorts,
\* truncates and lays out nothing.
C6_Placeholder ==
    (last.kind # "none" /\ last.Width <= 0)
    => /\ last.kind = "placeholder"
       /\ last.text = <<Placeholder>>
       /\ ~Ran(last)

\* C7: with maxVolume > 0 and a row width >= 0 every rendered level has
\* onLen = floor(width * volume / maxVolume) and offLen = width - onLen, so
\* 0 <= onLen <= width, and a level with volume = maxVolume has onLen = width.
C7_BarScaling ==
    (Ran(last) /\ last.maxVolume > 0 /\ last.columnWidth >= 0)
    => \A i \in 1..Len(RowsOf(last)) :
         LET row == RowsOf(last)[i]
         IN  /\ row.onLen = (last.columnWidth * row.order.Volume) \div last.maxVolume
             /\ row.offLen = last.columnWidth - row.onLen
             /\ 0 <= row.onLen /\ row.onLen <= last.columnWidth
             /\ row.order.Volume = last.maxVolume => row.onLen = last.columnWidth

\* C8: maxVolume is the largest volume of the visible levels (bids and asks
\* after truncation), and 0 when no level is visible.
C8_MaxVolume ==
    Ran(last)
    => LET vis == last.bids \o last.asks
       IN  /\ \A i \in 1..Len(vis) : vis[i].Volume <= last.maxVolume
           /\ IF vis = <<>> THEN last.maxVolume = 0
              ELSE \E i \in 1..Len(vis) : vis[i].Volume = last.maxVolume

\* C8 witness: a level of the full book that truncation hid has a larger
\* volume than maxVolume.
C8_Witness ==
    /\ last.kind = "panel"
    /\ last.maxVolume > 0
    /\ \E i \in 1..Len(Bids) : Bids[i].Volume > last.maxVolume

\* C9: every row has exactly `width` visible characters (one line of them),
\* also when price and volume together are longer than the width.
C9_RowWidthExact ==
    (last.kind = "panel" /\ last.columnWidth >= 0)
    => \A i \in 1..Len(RowsOf(last)) :
         /\ Len(RowsOf(last)[i].bar) = 1
         /\ Len(RowsOf(last)[i].bar[1]) = last.columnWidth

\* C10: for Width > 0 the text block is exactly Width columns wide and at
\* most Height rows tall (Height > 0: a Height <= 0 sets no depth limit).
C10_OutputSize ==
    (last.kind = "panel" /\ last.Width > 0 /\ last.Height > 0)
    => /\ \A i \in 1..Len(last.text) : Len(last.text[i]) = last.Width
       /\ Len(last.text) <= last.Height

\* the elements of s that have price p, in their order in s
AtPrice(s, p) == SelectSeq(s, LAMBDA o : o.Price = p)

\* whether a is the beginning of b
IsPrefix(a, b) == Len(a) <= Len(b) /\ SubSeq(b, 1, Len(a)) = a

\* C11: the rendered levels of one side that have the same price are in the
\* order the caller gave them, whatever the number of levels.
C11_StableTies ==
    Ran(last)
    => /\ \A i \in 1..Len(callerBids) :
            IsPrefix(AtPrice(OrdersOf(last.bidRows), callerBids[i].Price),
                     AtPrice(callerBids, callerBids[i].Price))
       /\ \A i \in 1..Len(callerAsks) :
            IsPrefix(AtPrice(OrdersOf(last.askRows), callerAsks[i].Price),
                     AtPrice(callerAsks, callerAsks[i].Price))

\* what the int conversion of a NaN gave in a call (0 when the call
\* converted none): one build gives the same result in every call
ConversionOf(call) ==
    IF call.maxVolume = 0 /\ Len(RowsOf(call)) > 0 THEN RowsOf(call)[1].onLen ELSE 0

\* C12: a call with the viewport of the call before it, on the same book and
\* configuration, returns the same output, although the call before it has
\* sorted the stored book.
C12_Deterministic ==
    [][(/\ last.kind # "none"
        /\ last'.kind # "none"
        /\ last'.Width = last.Width
        /\ last'.Height = last.Height
        /\ ConversionOf(last') = ConversionOf(last))
       => (last'.kind = last.kind /\ last'.text = last.text)]_vars

\* C12 witness: a panel was rendered and the stored bids are no longer in the
\* order the caller gave, so every further call runs on a book that an
\* earlier call changed.
C12_Witness ==
    /\ last.kind = "panel"
    /\ Bids # callerBids
    /\ Len(last.bidRows) >= 2

\* C13: a step that changes the cached width or height sets them to a
\* window-size message's values and changes nothing else; Update with another
\* message changes nothing; View records a call of ViewWithOptions with the
\* cached width and height and returns what that call returns.
C13_Resize ==
    [][/\ (width' # width \/ height' # height)
          => /\ \E msg \in WindowSizes :
                    width' = msg.Width /\ height' = msg.Height
             /\ UNCHANGED <<Bids, Asks, Spacing, PricePrecision, VolumePrecision,
                            callerBids, callerAsks, last, untouched>>
       /\ UpdateOther => UNCHANGED vars
       /\ View => /\ last'.kind # "none"
                  /\ last'.Width = width /\ last'.Height = height
                  /\ UNCHANGED <<width, height>>
                  /\ width = 0 => last'.text = <<Placeholder>>]_vars

\* C13 witness: the window size was cached and a panel was rendered with it.
C13_Witness ==
    /\ width = 45 /\ height = 1
    /\ last.kind = "panel"
    /\ last.Width = width /\ last.Height = height

\* the largest and the smallest price of a non-empty side
HighestPrice(orders) ==
    CHOOSE p \in {orders[i].Price : i \in 1..Len(orders)} :
        \A i \in 1..Len(orders) : orders[i].Price <= p
LowestPrice(orders) ==
    CHOOSE p \in {orders[i].Price : i \in 1..Len(orders)} :
        \A i \in 1..Len(orders) : orders[i].Price >= p

\* the levels of `shown` are the n best of `side` (highest prices for bids,
\* lowest for asks), in descending price order
BestShown(shown, side, n, isBid) ==
    /\ Len(shown) = n
    /\ \A i \in 1..Len(shown) : \E j \in 1..Len(side) : side[j] = shown[i]
    /\ \A i \in 1..(Len(shown) - 1) : shown[i].Price >= shown[i + 1].Price
    /\ \A j \in 1..Len(side) :
         (\E i \in 1..Len(shown) : shown[i] = side[j])
         \/ \A i \in 1..Len(shown) :
              IF isBid THEN side[j].Price <= shown[i].Price
              ELSE side[j].Price >= shown[i].Price

\* the stacked layout: the ask rows, the spread row, the bid rows
StackedLayout(call) ==
    /\ OrdersOf(call.askRows) = call.asks
    /\ OrdersOf(call.bidRows) = call.bids
    /\ call.panel = RowLines(call.askRows) \o <<call.spread>> \o RowLines(call.bidRows)
    /\ \A i \in 1..Len(RowsOf(call)) :
         SubSeq(RowsOf(call)[i].output, 1, Len(SpreadLabel)) # SpreadLabel

C15_SpreadRow ==
    last.kind = "stacked"
    => /\ StackedLayout(last)
       /\ Len(last.panel) = Len(last.askRows) + 1 + Len(last.bidRows)
       /\ last.spread =
            IF Bids = <<>> \/ Asks = <<>> THEN Repeat(" ", last.Width)
            ELSE SpreadAligned(SpreadLabel
                                 \o Sprintf(PricePrecision,
                                            LowestPrice(Asks) - HighestPrice(Bids)),
                               last.Width, Alignment)

\* C15 witness: one row per side is shown of the three-level scenario book
\* and the spread row reads "Spread: 1.00".
C15_Witness ==
    /\ last.kind = "stacked"
    /\ last.Height = 3
    /\ Len(Asks) = 3 /\ Len(Bids) = 3
    /\ Len(last.askRows) = 1 /\ Len(last.bidRows) = 1
    /\ \E k \in 0..last.Width :
         SubSeq(last.spread, k + 1, k + 12)
           = <<"S", "p", "r", "e", "a", "d", ":", " ", "1", ".", "0", "0">>

\* C16: in a bid row the leading offLen characters of the row text are the
\* offBar span and the trailing onLen characters the onBid span; in an ask
\* row the leading onLen characters are the onAsk span and the rest the
\* offBar span; the two spans in order are the row text (stated for row
\* widths >= 0, maxVolume > 0 and books that were rendered).
C16_BarDirection ==
    (last.kind = "panel" /\ last.columnWidth >= 0 /\ last.maxVolume > 0)
    => /\ \A i \in 1..Len(last.bidRows) :
            LET row == last.bidRows[i]
                n == Len(row.output)
            IN  /\ row.offStr = <<SubSeq(row.output, 1, row.offLen)>>
                /\ row.onStr = <<SubSeq(row.output, n - row.onLen + 1, n)>>
                /\ row.offStr[1] \o row.onStr[1] = row.output
       /\ \A i \in 1..Len(last.askRows) :
            LET row == last.askRows[i]
                n == Len(row.output)
            IN  /\ row.onStr = <<SubSeq(row.output, 1, row.onLen)>>
                /\ row.offStr = <<SubSeq(row.output, row.onLen + 1, n)>>
                /\ row.onStr[1] \o row.offStr[1] = row.output

\* the pad of a row: max(0, width - len(priceStr) - len(volumeStr))
PadOf(w, order, pricePrec, volPrec) ==
    Max(0, w - Len(Sprintf(pricePrec, order.Price)) - Len(Sprintf(volPrec, order.Volume)))

\* C17: a bid row's text is price, pad spaces, volume and an ask row's text
\* is volume, pad spaces, price, pad = max(0, width - len(priceStr) -
\* len(volumeStr)); a row whose fields are longer than a width >= 0 is
\* composed and split without an error (maxVolume > 0).
C17_RowText ==
    Ran(last)
    => /\ \A i \in 1..Len(last.bidRows) :
            LET row == last.bidRows[i]
            IN  row.output =
                  Sprintf(PricePrecision, row.order.Price)
                  \o Repeat(" ", PadOf(last.columnWidth, row.order,
                                       PricePrecision, VolumePrecision))
                  \o Sprintf(VolumePrecision, row.order.Volume)
       /\ \A i \in 1..Len(last.askRows) :
            LET row == last.askRows[i]
            IN  row.output =
                  Sprintf(VolumePrecision, row.order.Volume)
                  \o Repeat(" ", PadOf(last.columnWidth, row.order,
                                       PricePrecision, VolumePrecision))
                  \o Sprintf(PricePrecision, row.order.Price)
       /\ (last.columnWidth >= 0 /\ last.maxVolume > 0)
          => \A i \in 1..Len(RowsOf(last)) :
               Len(RowsOf(last)[i].output) > last.columnWidth => RowsOf(last)[i].ok

\* C17 witness: a panel with a bid row and an ask row whose fields are
\* longer than the row width, so that the pad is 0.
C17_Witness ==
    /\ last.kind = "panel"
    /\ last.columnWidth >= 0
    /\ \E i \in 1..Len(last.bidRows) :
         /\ Len(last.bidRows[i].output) > last.columnWidth
         /\ last.bidRows[i].ok
    /\ \E i \in 1..Len(last.askRows) :
         /\ Len(last.askRows[i].output) > last.columnWidth
         /\ last.askRows[i].ok

\* C18: for Width > 0 and Spacing >= 0 the column width is
\* floor((Width - Spacing) / 2) and two columns and the spacer fit in Width.
C18_ColumnWidth ==
    (Ran(last) /\ last.Width > 0 /\ Spacing >= 0)
    => /\ last.columnWidth = (last.Width - Spacing) \div 2
       /\ 2 * last.columnWidth + Spacing <= last.Width

\* C19: for Width > 0, a book with no bids and no asks renders a panel with
\* maxVolume = 0 and no row (so no bar length is computed); with one side
\* empty that side has no row and the other side's rows are those of that
\* side rendered on its own.
C19_EmptyBook ==
    (Ran(last) /\ last.Width > 0)
    => /\ (Bids = <<>> /\ Asks = <<>>)
          => /\ last.kind = "panel"
             /\ last.maxVolume = 0
             /\ last.bidRows = <<>> /\ last.askRows = <<>>
             /\ \A i \in 1..Len(last.text) :
                  last.text[i] = Repeat(" ", Max(last.Width, Spacing))
       /\ Bids = <<>> => last.bidRows = <<>>
       /\ Asks = <<>> => last.askRows = <<>>
       /\ (Asks = <<>> /\ Bids # <<>>)
          => /\ last.maxVolume = MaxVolumeFrom(0, last.bids)
             /\ \E nan \in NaNToInt :
                  last.bidRows = renderBids(last.bids, last.columnWidth,
                                            MaxVolumeFrom(0, last.bids), PricePrecision,
                                            VolumePrecision, nan).rows
       /\ (Bids = <<>> /\ Asks # <<>>)
          => /\ last.maxVolume = MaxVolumeFrom(0, last.asks)
             /\ \E nan \in NaNToInt :
                  last.askRows = renderAsks(last.asks, last.columnWidth,
                                            MaxVolumeFrom(0, last.asks), PricePrecision,
                                            VolumePrecision, nan).rows

\* C19 witness: a panel rendered from a book with no level.
C19_Witness ==
    /\ last.kind = "panel"
    /\ last.Width > 0
    /\ Bids = <<>> /\ Asks = <<>>
    /\ last.bidRows = <<>> /\ last.askRows = <<>>

Occurrences(s, x) == Cardinality({i \in 1..Len(s) : s[i] = x})

\* a and b hold the same multiset of levels
SameLevels(a, b) ==
    /\ Len(a) = Len(b)
    /\ \A i \in 1..Len(a) : Occurrences(a, a[i]) = Occurrences(b, a[i])

\* the number of levels of a side of n levels a call with height h shows
ShownOf(n, h) == IF h > 0 THEN Min(n, h) ELSE n

\* C23: after any calls of ViewWithOptions the stored Bids and Asks hold the
\* multiset of levels the caller supplied, so that a call shows
\* min(len, Height) levels of all the caller's levels whatever the earlier
\* heights were; after a call with Width # 0 the stored Bids are in
\* descending and the stored Asks in ascending price order; a call with
\* Width = 0 leaves both sequences as they are.
C23_BookPreserved ==
    /\ [](/\ SameLevels(Bids, callerBids)
          /\ SameLevels(Asks, callerAsks)
          /\ (last.kind # "none" /\ last.Width # 0)
             => /\ IsSorted(Bids, TRUE)
                /\ IsSorted(Asks, FALSE)
                /\ Len(last.bids) = ShownOf(Len(callerBids), last.Height)
                /\ Len(last.asks) = ShownOf(Len(callerAsks), last.Height))
    /\ [][last'.Width = 0 => UNCHANGED <<Bids, Asks>>]_vars

\* C23 witness: a call with Height 1 on a book of three bids the caller gave
\* out of order: one bid is shown, the three are stored, in descending order.
C23_Witness ==
    /\ last.kind = "panel"
    /\ last.Height = 1
    /\ Len(callerBids) = 3
    /\ Bids # callerBids
    /\ Len(Bids) = 3
    /\ Len(last.bids) = 1

\* C22: the cache holds a book only if the latest call that contacted the
\* API succeeded; a call with forceRefetch = false on a cache that holds a
\* book returns that book and the cached tokenized flag without contacting
\* the API; a call with forceRefetch = true contacts the API whatever the
\* cache held, and when it fails the cache is empty and the cached tokenized
\* flag is the one from before the call.
C22_FetchCache ==
    /\ orderBookCache # <<>> => lastFetch.lastContact = "ok"
    /\ (lastFetch.kind = "call" /\ ~lastFetch.forceRefetch
          /\ lastFetch.cacheBefore # <<>>)
       => /\ ~lastFetch.contacted
          /\ lastFetch.err = ""
          /\ lastFetch.book = lastFetch.cacheBefore
          /\ lastFetch.isTokenized = lastFetch.tokenizedBefore
          /\ orderBookCache = lastFetch.cacheBefore
          /\ isTokenizedCache = lastFetch.tokenizedBefore
    /\ (lastFetch.kind = "call" /\ lastFetch.forceRefetch)
       => /\ lastFetch.contacted
          /\ lastFetch.err # ""
             => /\ orderBookCache = <<>>
                /\ lastFetch.book = <<>>
                /\ isTokenizedCache = lastFetch.tokenizedBefore

\* C22 witness: a forced refetch failed on a cache that held a book of a
\* tokenized market: the cache is empty and the flag is still set.
C22_Witness ==
    /\ lastFetch.kind = "call"
    /\ lastFetch.forceRefetch
    /\ lastFetch.cacheBefore # <<>>
    /\ lastFetch.tokenizedBefore
    /\ lastFetch.err = "order book"
    /\ orderBookCache = <<>>
    /\ isTokenizedCache

\* the REST panel's book is the parsed book the last fetch returned
BookReplaced ==
    /\ Bids' = parseOrderBook(lastFetch'.book[1]).bids
    /\ Asks' = parseOrderBook(lastFetch'.book[1]).asks

\* a step of View: no other step of the demo draws the panels or renders
Drawn == screen' # screen \/ last' # last

\* C21: an 'r' key press sets loading and emits one refetchMsg; handling a
\* refetchMsg clears loading whatever the fetch did, and replaces the REST
\* panel's Bids and Asks by the fetched book when a market is given and the
\* forced fetch succeeded, leaving them as they are otherwise; while loading
\* is set View puts "Loading..." in the REST panel and renders no book; and
\* with every emitted refetchMsg delivered, loading is eventually cleared
\* (or the program has ended).
C21_RefreshProtocol ==
    /\ [][/\ AppKeyRefresh => (mainModel'.loading /\ inflight' = inflight + 1)
          /\ AppRefetch
             => /\ ~mainModel'.loading
                /\ inflight' = inflight - 1
                /\ market = <<>> => UNCHANGED <<Bids, Asks, lastFetch>>
                /\ market # <<>>
                   => /\ lastFetch'.kind = "call" /\ lastFetch'.forceRefetch
                      /\ lastFetch'.err # "" => UNCHANGED <<Bids, Asks>>
                      /\ lastFetch'.err = "" => BookReplaced
          /\ (Drawn /\ mainModel.loading)
             => (screen'.rest = <<Loading>> /\ UNCHANGED <<Bids, Asks, last>>)
          /\ (Drawn /\ ~mainModel.loading)
             => (screen'.rest = last'.text /\ last'.kind # "none")]_vars
    /\ [](mainModel.loading => inflight > 0)
    /\ (mainModel.loading ~> (~mainModel.loading \/ quit))

\* C21 witness: View showed "Loading..." after an 'r', then the refetchMsg
\* was handled with a fetch that failed: loading is cleared, the cache is
\* empty and the REST panel's book is the one from before.
C21_Witness ==
    /\ ~mainModel.loading
    /\ inflight = 0
    /\ screen.rest = <<Loading>>
    /\ lastFetch.kind = "call"
    /\ lastFetch.forceRefetch
    /\ lastFetch.err # ""
    /\ orderBookCache = <<>>
    /\ Bids = parseOrderBook(lastFetch.cacheBefore[1]).bids

====
